---- MODULE Spec2Model ----
(***************************************************************************)
(* Model of util/pydantic_classes.py (message / event / metrics schema)    *)
(* and util/metrics.py (persistence strategies and the tracking context    *)
(* manager TrackChatbotResponseMetrics).                                   *)
(*                                                                         *)
(* Conventions                                                             *)
(*   - a Python str is a sequence of one-character strings, so len() is    *)
(*     Len();                                                              *)
(*   - an attribute that may be None is a sequence of length 0 (None) or 1 *)
(*     (the value);                                                        *)
(*   - an evaluation that can raise returns Ok(v) or Raise(kind);          *)
(*   - time.time() is a wall-clock read: any value of Clock;               *)
(*   - keyword arguments of a constructor are a record holding exactly the *)
(*     keywords that were passed.                                          *)
(***************************************************************************)
EXTENDS Integers, Sequences, FiniteSets, TLC

VARIABLES
    records,                \* tracker run: heap of BotMetrics objects, by reference
    scopes,                 \* tracker run: one entry per `with` scope, in entry order
    chatbotResponsMetrics,  \* tracker run: attribute self.chatbotResponsMetrics of each tracker
    ops,                    \* tracker run: number of BotMetrics method calls made so far
    metrics,                \* metrics run: one BotMetrics object
    derived,                \* metrics run: the last computed field read from it
    built                   \* schema run: the last constructor call and its outcome

vars == <<records, scopes, chatbotResponsMetrics, ops, metrics, derived, built>>
trackerVars == <<records, scopes, chatbotResponsMetrics, ops>>
metricsVars == <<metrics, derived>>
schemaVars == <<built>>

----------------------------------------------------------------------------
(* Bounds *)

MaxScopes == 2      \* scopes entered in one tracker run
MaxOps == 2         \* BotMetrics method calls in one tracker run
MaxClock == 1       \* wall-clock readings are 0..MaxClock
MaxReplies == 2     \* length of Event.botReply in the metrics run

----------------------------------------------------------------------------
(* Generic helpers *)

None == <<>>
Some(v) == <<v>>
IsNone(o) == Len(o) = 0
Get(o) == o[1]

Ok(v) == [ok |-> TRUE, val |-> v]
Raise(kind) == [ok |-> FALSE, err |-> kind]

Has(kwargs, key) == key \in DOMAIN kwargs

HelloWorld == <<"H", "e", "l", "l", "o", " ", "W", "o", "r", "l", "d">>
Hi == <<"h", "i">>
Hello == <<"h", "e", "l", "l", "o">>
HiThere == <<"h", "i", " ", "t", "h", "e", "r", "e">>

----------------------------------------------------------------------------
(* Message payload variants *)

Choice(label, value) == [label |-> label, value |-> value]

ChoiceYes == Choice(<<"Y">>, <<"y">>)
ChoiceNo == Choice(<<"N">>, <<"n">>)

\* BotButtonMessage as it would be if `choices` had the default [] that
\* BotDropdownMessage gives it.
BotButtonMessageDefaulted(kwargs) ==
    Ok([cls |-> "BotButtonMessage",
        text |-> IF Has(kwargs, "text") THEN kwargs.text ELSE <<>>,
        choices |-> IF Has(kwargs, "choices") THEN kwargs.choices ELSE <<>>,
        active |-> IF Has(kwargs, "active") THEN kwargs.active ELSE TRUE])

\* BotButtonMessage(**kwargs): `choices` is required (Field(...)), with no
\* length constraint; text defaults to "" and active to True.
BotButtonMessage(kwargs) ==
    IF ~Has(kwargs, "choices")
    THEN Raise("ValidationError")
    ELSE Ok([cls |-> "BotButtonMessage",
             text |-> IF Has(kwargs, "text") THEN kwargs.text ELSE <<>>,
             choices |-> kwargs.choices,
             active |-> IF Has(kwargs, "active") THEN kwargs.active ELSE TRUE])

\* BotDropdownMessage(**kwargs): every field has a default.
BotDropdownMessage(kwargs) ==
    Ok([cls |-> "BotDropdownMessage",
        text |-> IF Has(kwargs, "text") THEN kwargs.text ELSE <<>>,
        choices |-> IF Has(kwargs, "choices") THEN kwargs.choices ELSE <<>>,
        active |-> IF Has(kwargs, "active") THEN kwargs.active ELSE TRUE])

BotHTMLMessage(kwargs) ==
    Ok([cls |-> "BotHTMLMessage",
        html |-> IF Has(kwargs, "html") THEN kwargs.html ELSE <<>>])

BotImageMessage(kwargs) ==
    Ok([cls |-> "BotImageMessage",
        url |-> IF Has(kwargs, "url") THEN kwargs.url ELSE <<>>])

BotTextMessage(kwargs) ==
    Ok([cls |-> "BotTextMessage",
        text |-> IF Has(kwargs, "text") THEN kwargs.text ELSE HelloWorld,
        useMarkdown |-> IF Has(kwargs, "useMarkdown") THEN kwargs.useMarkdown ELSE TRUE])

\* The values of the enum BotMessageTypes.
BotMessageTypes == {"text", "image", "html", "button", "dropdown"}

\* The classes of the Union BotPayload.
BotPayload == {"BotTextMessage", "BotImageMessage", "BotHTMLMessage",
               "BotButtonMessage", "BotDropdownMessage"}

\* A member of the enum, and a plain str that was never validated.
EnumMember(v) == [enum |-> TRUE, value |-> v]
RawStr(v) == [enum |-> FALSE, value |-> v]

\* BotMessage(**kwargs).  A passed `type` is validated against the enum and
\* becomes the member; a passed `payload` is validated against the Union
\* (an instance of one of its classes is accepted as it is).  The two
\* fields are validated independently of each other.  Defaults are not
\* validated: an omitted type stays the str "text" and an omitted payload
\* stays the str "Hello World".
BotMessage(kwargs) ==
    IF Has(kwargs, "type") /\ kwargs.type \notin BotMessageTypes
    THEN Raise("ValidationError")
    ELSE IF Has(kwargs, "payload") /\ kwargs.payload.cls \notin BotPayload
    THEN Raise("ValidationError")
    ELSE Ok([type |-> IF Has(kwargs, "type") THEN EnumMember(kwargs.type)
                      ELSE RawStr("text"),
             payload |-> IF Has(kwargs, "payload") THEN kwargs.payload
                         ELSE [cls |-> "str", value |-> HelloWorld]])

\* getattr(payload, "text"): the classes that declare a `text` field.
HasText(payload) == payload.cls \in {"BotTextMessage", "BotButtonMessage", "BotDropdownMessage"}

\* BotMessage.messageSize:
\*   0 if self.type != BotMessageTypes.text else len(self.payload.text)
\* A plain str never equals an enum member (BotMessageTypes is not a str enum).
messageSize(msg) ==
    IF ~(msg.type.enum /\ msg.type.value = "text")
    THEN Ok(0)
    ELSE IF HasText(msg.payload)
    THEN Ok(Len(msg.payload.text))
    ELSE Raise("AttributeError")

----------------------------------------------------------------------------
(* Event *)

\* Event(userId=, conversationId=, payload=, botReply=).  payload is a
\* Dict[str, Any]: a record with whatever keys the caller put in.
Event(userId, conversationId, payload, botReply) ==
    [userId |-> userId, conversationId |-> conversationId,
     payload |-> payload, botReply |-> botReply]

----------------------------------------------------------------------------
(* BotMetrics *)

\* BotMetrics(): event, startTime and endTime default to None, success to True.
BotMetrics == [event |-> None, startTime |-> None, endTime |-> None, success |-> TRUE]

\* responseTime as it would be with truthiness tests (`if self.startTime and
\* self.endTime`), which take a reading of 0 for a missing one.
responseTimeTruthy(m) ==
    IF ~IsNone(m.startTime) /\ ~IsNone(m.endTime)
       /\ Get(m.startTime) # 0 /\ Get(m.endTime) # 0
    THEN Ok(Get(m.endTime) - Get(m.startTime))
    ELSE Ok(0)

responseTime(m) ==
    IF ~IsNone(m.startTime) /\ ~IsNone(m.endTime)
    THEN Ok(Get(m.endTime) - Get(m.startTime))
    ELSE Ok(0)

userInputSize(m) ==
    IF IsNone(m.event) THEN Raise("AttributeError")
    ELSE IF ~Has(Get(m.event).payload, "text") THEN Raise("KeyError")
    ELSE Ok(Len(Get(m.event).payload.text))

\* functools.reduce(lambda s, r: s + r.messageSize, botReply, 0), left to
\* right from index i with accumulator s; the first messageSize that raises
\* ends the fold.
RECURSIVE reduceSizes(_, _, _)
reduceSizes(botReply, i, s) ==
    IF i > Len(botReply) THEN Ok(s)
    ELSE LET r == messageSize(botReply[i])
         IN IF r.ok THEN reduceSizes(botReply, i + 1, s + r.val) ELSE r

botOutputSize(m) ==
    IF IsNone(m.event) THEN Raise("AttributeError")
    ELSE reduceSizes(Get(m.event).botReply, 1, 0)

userId(m) ==
    IF IsNone(m.event) THEN Raise("AttributeError") ELSE Ok(Get(m.event).userId)

conversationId(m) ==
    IF IsNone(m.event) THEN Raise("AttributeError") ELSE Ok(Get(m.event).conversationId)

inputMessageType(m) ==
    IF IsNone(m.event) THEN Raise("AttributeError")
    ELSE IF ~Has(Get(m.event).payload, "type") THEN Raise("KeyError")
    ELSE Ok(Get(m.event).payload.type)

trackStart(m, now) == [m EXCEPT !.startTime = Some(now)]
trackEnd(m, now) == [m EXCEPT !.endTime = Some(now)]
captureEvent(m, event) == [m EXCEPT !.event = Some(event)]

----------------------------------------------------------------------------
(* Persistence strategies *)

\* PersistMetrics.persist: the body is `pass`.
PersistMetrics_persist(m) == Ok(None)

\* ConsoleMetrics.persist: the cells of the row are evaluated in the order
\* of the list literal; the first one that raises ends the call.  round()
\* of None raises TypeError.  The value is the row that is printed.
ConsoleMetrics_persist(m) ==
    IF IsNone(m.startTime) THEN Raise("TypeError")
    ELSE IF ~conversationId(m).ok THEN conversationId(m)
    ELSE IF ~userId(m).ok THEN userId(m)
    ELSE IF ~inputMessageType(m).ok THEN inputMessageType(m)
    ELSE IF ~userInputSize(m).ok THEN userInputSize(m)
    ELSE IF ~botOutputSize(m).ok THEN botOutputSize(m)
    ELSE Ok([when |-> Get(m.startTime),
             success |-> IF m.success THEN "pass" ELSE "fail",
             conversationId |-> conversationId(m).val,
             userId |-> userId(m).val,
             messageType |-> inputMessageType(m).val,
             inputSize |-> userInputSize(m).val,
             outputSize |-> botOutputSize(m).val,
             inferenceTime |-> responseTime(m).val])

\* self.persist.persist(metrics): dispatch on the strategy's class.
persist(strategy, m) ==
    IF strategy = "ConsoleMetrics" THEN ConsoleMetrics_persist(m)
    ELSE PersistMetrics_persist(m)

----------------------------------------------------------------------------
(* Tracker run: TrackChatbotResponseMetrics used in `with` statements *)

\* Two tracker objects: tracker 1 is TrackChatbotResponseMetrics() with the
\* default strategy, tracker 2 is TrackChatbotResponseMetrics(PersistMetrics()).
Trackers == {1, 2}

\* TrackChatbotResponseMetrics.__init__: self.persist = persist
TrackerPersist(t) == IF t = 1 THEN "ConsoleMetrics" ELSE "PersistMetrics"

Clock == 0 .. MaxClock

\* The tracker run reads the clock at its earliest and at its latest value.
TrackedClock == {0, MaxClock}

\* The events the caller of the tracker run passes to captureEvent.
EventHello ==
    Event("u1", "c1", [text |-> Hello, type |-> "text"],
          <<BotMessage([type |-> "text",
                        payload |-> BotTextMessage([text |-> HiThere]).val]).val>>)
\* Event(): payload defaults to {} and botReply to [].
EventDefault == Event("u1", "c1", <<>>, <<>>)
TrackedEvents == <<EventHello, EventDefault>>

TrackerInit ==
    /\ records = <<>>
    /\ scopes = <<>>
    /\ chatbotResponsMetrics = [t \in Trackers |-> None]
    /\ ops = 0

\* The scopes whose body is still running; `with` statements nest, so the
\* innermost one is the one entered last.
Active == {s \in DOMAIN scopes : scopes[s].state = "body"}
Innermost(s) == s \in Active /\ \A u \in Active : u <= s

\* __enter__ on tracker t: a new BotMetrics() is stored in the attribute of
\* the tracker and returned to the caller, who binds it (scope field rec).
Enter(t) ==
    /\ Len(scopes) < MaxScopes
    /\ LET ref == Len(records) + 1
       IN /\ records' = Append(records, BotMetrics)
          /\ chatbotResponsMetrics' = [chatbotResponsMetrics EXCEPT ![t] = Some(ref)]
          /\ scopes' = Append(scopes,
                 [tracker |-> t, rec |-> ref, state |-> "body", raised |-> FALSE,
                  persistCalls |-> 0, handed |-> None, seen |-> None,
                  persistErr |-> "none", control |-> "inside"])
    /\ UNCHANGED <<ops, metricsVars, schemaVars>>

\* __exit__ as it would be if persist were called on the success path only.
ExitPersistOnSuccess(s, type) ==
    /\ Innermost(s)
    /\ LET t == scopes[s].tracker
           ref == Get(chatbotResponsMetrics[t])
           finalized == IF type THEN [records[ref] EXCEPT !.success = FALSE]
                        ELSE records[ref]
           result == persist(TrackerPersist(t), finalized)
       IN /\ records' = [records EXCEPT ![ref] = finalized]
          /\ scopes' = [scopes EXCEPT ![s] =
                 IF type
                 THEN [@ EXCEPT !.state = "exited", !.raised = type, !.control = "returned"]
                 ELSE [@ EXCEPT !.state = "exited", !.raised = type,
                                !.persistCalls = @ + 1, !.handed = Some(ref),
                                !.seen = Some(finalized),
                                !.persistErr = IF result.ok THEN "none" ELSE result.err,
                                !.control = IF result.ok THEN "returned" ELSE "raised"]]
    /\ UNCHANGED <<chatbotResponsMetrics, ops, metricsVars, schemaVars>>

\* __exit__ as it would be if it ended with `del self.chatbotResponsMetrics`.
ExitDiscarding(s, type) ==
    /\ Innermost(s)
    /\ ~IsNone(chatbotResponsMetrics[scopes[s].tracker])
    /\ LET t == scopes[s].tracker
           ref == Get(chatbotResponsMetrics[t])
           finalized == IF type THEN [records[ref] EXCEPT !.success = FALSE]
                        ELSE records[ref]
           result == persist(TrackerPersist(t), finalized)
       IN /\ records' = [records EXCEPT ![ref] = finalized]
          /\ chatbotResponsMetrics' = [chatbotResponsMetrics EXCEPT ![t] = None]
          /\ scopes' = [scopes EXCEPT ![s] =
                 [@ EXCEPT !.state = "exited", !.raised = type,
                           !.persistCalls = @ + 1, !.handed = Some(ref),
                           !.seen = Some(finalized),
                           !.persistErr = IF result.ok THEN "none" ELSE result.err,
                           !.control = IF result.ok THEN "returned" ELSE "raised"]]
    /\ UNCHANGED <<ops, metricsVars, schemaVars>>

\* __exit__(type, value, traceback) of scope s; type is truthy iff the body
\* raised.  The record is the one the tracker's attribute refers to now.
\* If persist raises, `return True` is not reached and the error leaves
\* __exit__; otherwise True is returned and the body's error is suppressed.
Exit(s, type) ==
    /\ Innermost(s)
    /\ LET t == scopes[s].tracker
           ref == Get(chatbotResponsMetrics[t])
           finalized == IF type THEN [records[ref] EXCEPT !.success = FALSE]
                        ELSE records[ref]
           result == persist(TrackerPersist(t), finalized)
       IN /\ records' = [records EXCEPT ![ref] = finalized]
          /\ scopes' = [scopes EXCEPT ![s] =
                 [@ EXCEPT !.state = "exited", !.raised = type,
                           !.persistCalls = @ + 1, !.handed = Some(ref),
                           !.seen = Some(finalized),
                           !.persistErr = IF result.ok THEN "none" ELSE result.err,
                           !.control = IF result.ok THEN "returned" ELSE "raised"]]
    /\ UNCHANGED <<chatbotResponsMetrics, ops, metricsVars, schemaVars>>

\* The caller calls a method on a BotMetrics object it holds a reference
\* to: inside the scope body, or later (the name bound by `with ... as`
\* outlives the block).
TrackStart(ref, now) ==
    /\ ops < MaxOps
    /\ ref \in DOMAIN records
    /\ records' = [records EXCEPT ![ref] = trackStart(@, now)]
    /\ ops' = ops + 1
    /\ UNCHANGED <<scopes, chatbotResponsMetrics, metricsVars, schemaVars>>

TrackEnd(ref, now) ==
    /\ ops < MaxOps
    /\ ref \in DOMAIN records
    /\ records' = [records EXCEPT ![ref] = trackEnd(@, now)]
    /\ ops' = ops + 1
    /\ UNCHANGED <<scopes, chatbotResponsMetrics, metricsVars, schemaVars>>

CaptureEvent(ref, e) ==
    /\ ops < MaxOps
    /\ ref \in DOMAIN records
    /\ records' = [records EXCEPT ![ref] = captureEvent(@, TrackedEvents[e])]
    /\ ops' = ops + 1
    /\ UNCHANGED <<scopes, chatbotResponsMetrics, metricsVars, schemaVars>>

Body ==
    \/ \E ref \in 1 .. MaxScopes, now \in TrackedClock : TrackStart(ref, now)
    \/ \E ref \in 1 .. MaxScopes, now \in TrackedClock : TrackEnd(ref, now)
    \/ \E ref \in 1 .. MaxScopes, e \in DOMAIN TrackedEvents : CaptureEvent(ref, e)

MetricsIdle == metrics = BotMetrics /\ derived = None
SchemaIdle == built = None

Init == TrackerInit /\ MetricsIdle /\ SchemaIdle

Next ==
    \/ \E t \in Trackers : Enter(t)
    \/ \E s \in 1 .. MaxScopes, type \in BOOLEAN : Exit(s, type)
    \/ Body

Spec == Init /\ [][Next]_vars

----------------------------------------------------------------------------
(* Metrics run: one BotMetrics object, its methods and its computed fields *)

\* BotMessage objects the caller can put into Event.botReply.
ReplyPool ==
    <<BotMessage([type |-> "text", payload |-> BotTextMessage([text |-> HiThere]).val]).val,
      BotMessage([type |-> "button",
                  payload |-> BotButtonMessage([text |-> Hi,
                                                choices |-> <<ChoiceYes, ChoiceNo>>]).val]).val,
      BotMessage([type |-> "image", payload |-> BotImageMessage(<<>>).val]).val,
      BotMessage([type |-> "dropdown", payload |-> BotDropdownMessage([text |-> Hi]).val]).val,
      BotMessage([type |-> "html", payload |-> BotHTMLMessage(<<>>).val]).val,
      BotMessage([payload |-> BotTextMessage([text |-> Hi]).val]).val,
      BotMessage([type |-> "text", payload |-> BotImageMessage(<<>>).val]).val,
      BotMessage(<<>>).val>>

\* The payload dicts of the events of the metrics run.
PayloadPool == <<[text |-> Hello, type |-> "text"], [type |-> "text"], [text |-> Hello]>>

MetricsInit == metrics = BotMetrics /\ derived = None

MTrackStart(now) ==
    /\ metrics' = trackStart(metrics, now)
    /\ derived' = None
    /\ UNCHANGED <<trackerVars, schemaVars>>

MTrackEnd(now) ==
    /\ metrics' = trackEnd(metrics, now)
    /\ derived' = None
    /\ UNCHANGED <<trackerVars, schemaVars>>

\* captureEvent with a new Event that has no replies yet.
MCaptureEvent(p) ==
    /\ metrics' = captureEvent(metrics, Event("u1", "c1", PayloadPool[p], <<>>))
    /\ derived' = None
    /\ UNCHANGED <<trackerVars, schemaVars>>

\* The chatbot's work: event.botReply.append(msg) on the captured event,
\* which BotMetrics holds by reference.
MAppendReply(i) ==
    /\ ~IsNone(metrics.event)
    /\ Len(Get(metrics.event).botReply) < MaxReplies
    /\ metrics' = [metrics EXCEPT !.event =
                      Some([Get(@) EXCEPT !.botReply = Append(@, ReplyPool[i])])]
    /\ derived' = None
    /\ UNCHANGED <<trackerVars, schemaVars>>

\* The caller reads a computed field; derived is what the read gives.
ReadResponseTime ==
    /\ derived' = Some([field |-> "responseTime", result |-> responseTime(metrics)])
    /\ UNCHANGED <<metrics, trackerVars, schemaVars>>

ReadBotOutputSize ==
    /\ derived' = Some([field |-> "botOutputSize", result |-> botOutputSize(metrics)])
    /\ UNCHANGED <<metrics, trackerVars, schemaVars>>

ReadUserInputSize ==
    /\ derived' = Some([field |-> "userInputSize", result |-> userInputSize(metrics)])
    /\ UNCHANGED <<metrics, trackerVars, schemaVars>>

ReadInputMessageType ==
    /\ derived' = Some([field |-> "inputMessageType", result |-> inputMessageType(metrics)])
    /\ UNCHANGED <<metrics, trackerVars, schemaVars>>

\* ConsoleMetrics().persist(metrics), called directly.
ReadConsoleRow ==
    /\ derived' = Some([field |-> "ConsoleMetrics.persist",
                        result |-> ConsoleMetrics_persist(metrics)])
    /\ UNCHANGED <<metrics, trackerVars, schemaVars>>

MetricsStart == TrackerInit /\ MetricsInit /\ SchemaIdle

MetricsNext ==
    \/ \E now \in Clock : MTrackStart(now)
    \/ \E now \in Clock : MTrackEnd(now)
    \/ \E p \in DOMAIN PayloadPool : MCaptureEvent(p)
    \/ \E i \in DOMAIN ReplyPool : MAppendReply(i)
    \/ ReadResponseTime
    \/ ReadBotOutputSize
    \/ ReadUserInputSize
    \/ ReadInputMessageType
    \/ ReadConsoleRow

SpecMetrics == MetricsStart /\ [][MetricsNext]_vars

----------------------------------------------------------------------------
(* Schema run: constructor calls of the message classes *)

\* An argument that is omitted (None) or passed (Some).
Opt(S) == {None} \cup {Some(v) : v \in S}

\* The keyword-argument record of the arguments that were passed.
Kw(key, o) == IF IsNone(o) THEN <<>> ELSE [k \in {key} |-> Get(o)]

TextArgs == {<<>>, Hi}
ChoicesArgs == {<<>>, <<ChoiceYes>>, <<ChoiceYes, ChoiceNo>>}
TypeArgs == BotMessageTypes \cup {"video"}

\* Objects passed as BotMessage.payload: one instance of each class of the
\* Union, and an int, which is none of them.
PayloadArgs ==
    <<BotTextMessage([text |-> Hi]).val,
      BotImageMessage(<<>>).val,
      BotHTMLMessage(<<>>).val,
      BotButtonMessage([text |-> Hi, choices |-> <<ChoiceYes>>]).val,
      BotDropdownMessage(<<>>).val,
      [cls |-> "int", value |-> 42]>>

SchemaInit == built = None

NewBotButtonMessage(text, choices, active) ==
    LET kwargs == Kw("text", text) @@ Kw("choices", choices) @@ Kw("active", active)
    IN /\ built' = Some([cls |-> "BotButtonMessage", kwargs |-> kwargs, result |-> BotButtonMessage(kwargs)])
       /\ UNCHANGED <<trackerVars, metricsVars>>

NewBotDropdownMessage(text, choices, active) ==
    LET kwargs == Kw("text", text) @@ Kw("choices", choices) @@ Kw("active", active)
    IN /\ built' = Some([cls |-> "BotDropdownMessage", kwargs |-> kwargs, result |-> BotDropdownMessage(kwargs)])
       /\ UNCHANGED <<trackerVars, metricsVars>>

NewBotTextMessage(text, useMarkdown) ==
    LET kwargs == Kw("text", text) @@ Kw("useMarkdown", useMarkdown)
    IN /\ built' = Some([cls |-> "BotTextMessage", kwargs |-> kwargs, result |-> BotTextMessage(kwargs)])
       /\ UNCHANGED <<trackerVars, metricsVars>>

NewBotImageMessage(url) ==
    LET kwargs == Kw("url", url)
    IN /\ built' = Some([cls |-> "BotImageMessage", kwargs |-> kwargs, result |-> BotImageMessage(kwargs)])
       /\ UNCHANGED <<trackerVars, metricsVars>>

NewBotHTMLMessage(html) ==
    LET kwargs == Kw("html", html)
    IN /\ built' = Some([cls |-> "BotHTMLMessage", kwargs |-> kwargs, result |-> BotHTMLMessage(kwargs)])
       /\ UNCHANGED <<trackerVars, metricsVars>>

\* payload is None (omitted) or an index into PayloadArgs.
NewBotMessage(type, payload) ==
    LET kwargs == Kw("type", type)
                  @@ (IF payload = 0 THEN <<>> ELSE [k \in {"payload"} |-> PayloadArgs[payload]])
    IN /\ built' = Some([cls |-> "BotMessage", kwargs |-> kwargs, result |-> BotMessage(kwargs)])
       /\ UNCHANGED <<trackerVars, metricsVars>>

SchemaStart == TrackerInit /\ MetricsIdle /\ SchemaInit

SchemaNext ==
    \/ \E t \in Opt(TextArgs), c \in Opt(ChoicesArgs), a \in Opt(BOOLEAN) :
          NewBotButtonMessage(t, c, a)
    \/ \E t \in Opt(TextArgs), c \in Opt(ChoicesArgs), a \in Opt(BOOLEAN) :
          NewBotDropdownMessage(t, c, a)
    \/ \E t \in Opt(TextArgs), md \in Opt(BOOLEAN) : NewBotTextMessage(t, md)
    \/ \E u \in Opt(TextArgs) : NewBotImageMessage(u)
    \/ \E h \in Opt(TextArgs) : NewBotHTMLMessage(h)
    \/ \E ty \in Opt(TypeArgs), pl \in 0 .. Len(PayloadArgs) : NewBotMessage(ty, pl)

SpecSchema == SchemaStart /\ [][SchemaNext]_vars

----------------------------------------------------------------------------
(* Properties of the tracker run (Spec) *)

Exited == {s \in DOMAIN scopes : scopes[s].state = "exited"}
OnConsole(s) == TrackerPersist(scopes[s].tracker) = "ConsoleMetrics"

C2_BodyErrorAbsorbed ==
    \A s \in Exited :
        (scopes[s].raised /\ OnConsole(s)) => scopes[s].control = "returned"

\* C3: persist has been invoked exactly once for every scope that was left,
\* however its body ended, by the time control is back with the caller, and
\* not at all for a scope whose body is still running.
C3_PersistOncePerScope ==
    \A s \in DOMAIN scopes :
        /\ scopes[s].state = "body" =>
              (scopes[s].persistCalls = 0 /\ scopes[s].control = "inside")
        /\ scopes[s].state = "exited" =>
              (scopes[s].persistCalls = 1 /\ scopes[s].control # "inside")

\* Two scopes were left, one whose body raised and one whose body did not,
\* and persist ran once for each.
C3_Witness ==
    \E s, u \in Exited :
        /\ scopes[s].raised /\ scopes[s].persistCalls = 1
        /\ ~scopes[u].raised /\ scopes[u].persistCalls = 1

\* C4: the console strategy's persist raises for no record it is handed at
\* a scope exit.
C4_ConsolePersistNeverRaises ==
    \A s \in Exited : OnConsole(s) => scopes[s].persistErr = "none"

\* C9 as stated: once a scope was left, the fields of the record that was
\* persisted stay equal to the persisted values.
C9_RecordFrozenAfterExit ==
    \A s \in Exited : records[Get(scopes[s].handed)] = Get(scopes[s].seen)

\* C9 as amended: after a scope was left nothing is discarded.  The
\* reference returned at entry still denotes a BotMetrics object and the
\* tracker still holds one in chatbotResponsMetrics, so the object stays
\* readable and mutable.
C9_RecordSurvivesExit ==
    \A s \in Exited :
        /\ scopes[s].rec \in DOMAIN records
        /\ ~IsNone(chatbotResponsMetrics[scopes[s].tracker])
        /\ Get(chatbotResponsMetrics[scopes[s].tracker]) \in DOMAIN records

\* A scope was left, and a later trackStart, trackEnd or captureEvent through
\* the reference returned at entry changed the record that was persisted.
C9_Witness ==
    \E s \in Exited :
        /\ Get(scopes[s].handed) = scopes[s].rec
        /\ records[scopes[s].rec].success = Get(scopes[s].seen).success
        /\ records[scopes[s].rec] # Get(scopes[s].seen)

\* C10: every entry returns a record of its own, and the record finalized
\* and handed to persist at the exit of a scope is the one the entry of that
\* scope returned.
C10_ScopeOwnsItsRecord ==
    /\ \A s, u \in DOMAIN scopes : s # u => scopes[s].rec # scopes[u].rec
    /\ \A s \in Exited : Get(scopes[s].handed) = scopes[s].rec

----------------------------------------------------------------------------
(* Properties of the metrics run (SpecMetrics) *)

Reading(field) == ~IsNone(derived) /\ Get(derived).field = field

\* C7: reading responseTime never fails; it gives endTime - startTime when
\* both are set and 0 when either is unset, whatever the order and number of
\* the calls, and whether or not an event was captured.
C7_ResponseTime ==
    Reading("responseTime") =>
        /\ Get(derived).result.ok
        /\ Get(derived).result.val =
              IF Len(metrics.startTime) = 1 /\ Len(metrics.endTime) = 1
              THEN metrics.endTime[1] - metrics.startTime[1]
              ELSE 0

\* responseTime was read with no event captured, startTime set at reading
\* 0 and endTime at the latest reading, and it gave their difference.
C7_Witness ==
    /\ Reading("responseTime")
    /\ IsNone(metrics.event)
    /\ metrics.startTime = Some(0)
    /\ metrics.endTime = Some(MaxClock)
    /\ Get(derived).result.val = MaxClock

\* The size the claim gives a reply: the length of payload.text when the
\* type is text (read as 0 where the payload has no text), else 0.
ClaimedSize(msg) ==
    IF msg.type.value = "text" /\ HasText(msg.payload) THEN Len(msg.payload.text) ELSE 0

RECURSIVE ClaimedSum(_)
ClaimedSum(botReply) ==
    IF botReply = <<>> THEN 0
    ELSE ClaimedSize(Head(botReply)) + ClaimedSum(Tail(botReply))

\* C8: with an event captured, botOutputSize is the sum over event.botReply
\* of the length of payload.text for the replies of type text and of 0 for
\* the others.
C8_OutputSizeSumsTextReplies ==
    (Reading("botOutputSize") /\ ~IsNone(metrics.event)) =>
        /\ Get(derived).result.ok
        /\ Get(derived).result.val = ClaimedSum(Get(metrics.event).botReply)

----------------------------------------------------------------------------
(* Properties of the schema run (SpecSchema) *)

Built(cls) == ~IsNone(built) /\ Get(built).cls = cls

\* The payload class that goes with a type tag.
VariantOf(type) ==
    CASE type = "text" -> "BotTextMessage"
      [] type = "image" -> "BotImageMessage"
      [] type = "html" -> "BotHTMLMessage"
      [] type = "button" -> "BotButtonMessage"
      [] type = "dropdown" -> "BotDropdownMessage"

\* C5: every BotMessage that was constructed has the payload class of its
\* type tag; a construction with another payload class gives no object.
C5_PayloadMatchesType ==
    (Built("BotMessage") /\ Get(built).result.ok) =>
        Get(built).result.val.payload.cls = VariantOf(Get(built).result.val.type.value)

\* C6 as stated: no BotButtonMessage is constructed with zero choices.
C6_EmptyChoicesRejected ==
    (Built("BotButtonMessage") /\ Get(built).result.ok) =>
        Len(Get(built).result.val.choices) > 0

\* C6 as amended: BotButtonMessage raises a ValidationError exactly when
\* choices is absent; a choices list that is passed, empty or not, is the
\* choices of the object.
C6_ChoicesRequiredNotNonEmpty ==
    Built("BotButtonMessage") =>
        /\ Get(built).result.ok <=> Has(Get(built).kwargs, "choices")
        /\ Get(built).result.ok =>
              Get(built).result.val.choices = Get(built).kwargs.choices
        /\ ~Get(built).result.ok => Get(built).result.err = "ValidationError"

\* A BotButtonMessage was constructed from an empty choices list.
C6_Witness ==
    /\ Built("BotButtonMessage")
    /\ Has(Get(built).kwargs, "choices")
    /\ Get(built).kwargs.choices = <<>>
    /\ Get(built).result.ok
    /\ Len(Get(built).result.val.choices) = 0

====
